---- MODULE Spec2Model ----
(***************************************************************************)
(* A model of src/game.py: the Maze environment, the Experience replay     *)
(* buffer, and the training / play loops of DeepQNetwork, QTable and the   *)
(* generic "move until win or lose" play-out.                              *)
(*                                                                         *)
(* Rewards are floats in the source.  Every reward is a multiple of 0.01,  *)
(* so the environment is modelled in exact hundredths: 1.0 is 100, -0.04   *)
(* is -4, -0.25 is -25, -0.75 is -75 and minimum_reward = -0.25 * size is  *)
(* -25 * size.                                                             *)
(*                                                                         *)
(* Cells are <<col, row>> tuples, 0-based, as in the source; the maze is   *)
(* indexed maze[row][col].                                                 *)
(***************************************************************************)
EXTENDS Integers, Sequences, FiniteSets, TLC

\* ----------------------------------------------------------------- constants

CELL_EMPTY == 0
CELL_OCCUPIED == 1
CELL_CURRENT == 2

MOVE_LEFT == 0
MOVE_RIGHT == 1
MOVE_UP == 2
MOVE_DOWN == 3

\* the keys of the module-level dictionary `actions`
actions == {MOVE_LEFT, MOVE_RIGHT, MOVE_UP, MOVE_DOWN}

\* rewards of Maze.update_state, in hundredths
REWARD_EXIT == 100
PENALTY_MOVE == -4
PENALTY_VISITED == -25
PENALTY_WALL == -75
\* 1.0 in hundredths: the "- 1" of `minimum_reward - 1`
ONE == 100
\* 0.25 in hundredths: the factor of minimum_reward = -0.25 * maze.size
QUARTER == 25

\* ----------------------------------------------------------------- bounds

\* number of move() calls explored on one Maze object in the free-use
\* specification (the environment itself never refuses a call)
MaxMoves == 5

\* the <<nrows, ncols>> shapes of the mazes the environment is built on
Shapes == {<<1, 2>>, <<1, 3>>, <<2, 2>>}

\* the shapes of the mazes possible_actions is queried on: they have cells with
\* four neighbours
ShapesQuery == {<<2, 3>>, <<3, 2>>, <<3, 3>>}

\* largest capacity of the experience buffer
MaxMemory == 3

\* number of remember() calls explored on one buffer
MaxRemember == 5

\* largest value of the keyword argument epochs of DeepQNetwork.train
MaxEpochs == 4

\* largest value of the keyword argument max_memory of DeepQNetwork.train
MaxTrainMemory == 1

\* the shapes of the mazes DeepQNetwork.train is run on
ShapesTrain == {<<1, 2>>, <<2, 1>>, <<1, 3>>}

\* the same with the 2 x 2 mazes, whose history_size is 2
ShapesTrainWide == ShapesTrain \cup {<<2, 2>>}

\* number of remember calls before and between get_samples calls
MaxFill == 3

\* largest sample_size passed to get_samples
MaxSampleSize == 4

\* the shapes of the mazes completion_check is called on
ShapesCheck == {<<1, 2>>, <<1, 3>>, <<2, 2>>}

\* the value of `episodes` in QTable.train (500 in the source): the for loop
\* plays range(1, episodes) games
MaxEpisodes == 3

\* number of Q-table updates explored in one QTable.train call
MaxUpdates == 3

\* the shapes of the mazes QTable is trained and played on
ShapesQ == {<<1, 2>>, <<1, 3>>, <<2, 2>>}

\* the shapes of the mazes a game is played to its end on
ShapesPlay == {<<1, 2>>, <<2, 1>>, <<1, 3>>, <<3, 1>>, <<2, 2>>}

\* ----------------------------------------------------------------- state

VARIABLES
    maze,           \* Maze.maze: [row -> [col -> CELL_EMPTY | CELL_OCCUPIED]]
    exit_cell,      \* Maze.exit_cell
    current_cell,   \* Maze.current_cell
    previous_cell,  \* Maze.previous_cell
    total_reward,   \* Maze.total_reward (hundredths)
    visited,        \* Maze.visited
    last_op,        \* the last call made on the Maze: "init", "reset", "move"
    last_cell,      \* the cell last passed to reset or possible_actions
    last_action,    \* the action last passed to move (-1: none since the last reset)
    raised,         \* whether that call raised an exception
    ret_reward,     \* the reward returned by the last move() since the last reset
    ret_status,     \* the status returned by the last move() since the last reset
    ret_actions,    \* the list returned by the last possible_actions(cell) call
    been,           \* history: the cells the agent has been in since the last reset
    nmoves,         \* history: the number of move() calls made so far
    play_pc,        \* play(start_cell): "idle", "loop" (inside while True), "done"
    play_result,    \* what the last play(start_cell) returned
    memory,         \* Experience.memory: a list of [state, move, reward, next_state, status]
    max_memory,     \* Experience.max_memory
    log,            \* history: every episode passed to remember, in call order
    epochs,         \* DeepQNetwork.train: the keyword argument epochs
    epoch,          \* the loop variable of `for epoch in range(1, epochs)`
    epsilon,        \* the exploration rate, in hundredths
    win_history,    \* the list win_history
    win_rate,       \* win_rate as the fraction <<numerator, denominator>>
    train_pc,       \* "none", "for", "while", "end" (after the while loop), "save", "done"
    train_status,   \* the local variable status
    saves,          \* history: the number of self.save(modelname) calls
    qtable,         \* QTable.qtable: observation -> the four Q values
    q_pc,           \* QTable.train: "none", "for", "while", "trained"
    q_episode,      \* the loop variable of `for episode in range(1, episodes)`
    q_updates,      \* history: the number of Q-table updates made by train
    q_updated,      \* history: the slots <<key, action>> train has updated
    sample_arg,     \* the sample_size last passed to get_samples (-1: no call yet)
    drawn,          \* the indices np.random.choice drew in that call, in order
    targets,        \* targets[i, move] of that call, for i = 1..Len(drawn)
    sample_error,   \* "none", or the exception that call raised
    check_called,   \* history: completion_check() has been called
    check_result,   \* what the last completion_check() returned
    check_pi,       \* the greedy policy of the network in the last call the
                    \* caller made to completion_check() itself
    train_break,    \* history: DeepQNetwork.train left its for loop by break
    qn_pc,          \* QNetwork.train: "none", "for", "while", "done"
    qn_episode,     \* the loop variable of `for episode in range(1, episodes)`
    qn_max_next,    \* np.max(self.model.predict(next_state)) of the last step
    qn_target,      \* the local variable target of the last step
    games           \* history: the training games a train() call has started

envVars == <<maze, exit_cell, current_cell, previous_cell, total_reward, visited>>
callVars == <<last_op, last_cell, last_action, raised, ret_reward, ret_status, ret_actions, been, nmoves>>
playVars == <<play_pc, play_result>>
bufVars == <<memory, max_memory, log>>
trainVars == <<epochs, epoch, epsilon, win_history, win_rate, train_pc, train_status, saves>>
qVars == <<qtable, q_pc, q_episode, q_updates, q_updated>>
sampleVars == <<sample_arg, drawn, targets, sample_error>>
checkVars == <<check_called, check_result, check_pi, train_break>>
qnetVars == <<qn_pc, qn_episode, qn_max_next, qn_target>>
moreVars == <<sampleVars, checkVars, qnetVars, games>>
vars == <<envVars, callVars, playVars, bufVars, trainVars, qVars, moreVars>>

\* ----------------------------------------------------------------- Maze

nrows(m) == Cardinality(DOMAIN m)
ncols(m) == Cardinality(DOMAIN m[0])
size(m) == nrows(m) * ncols(m)

\* Maze.cells
cells(m) == {<<c, r>> : c \in 0..(ncols(m) - 1), r \in 0..(nrows(m) - 1)}

\* self.maze[cell[::-1]]
at(m, cell) == m[cell[2]][cell[1]]

\* Maze.empty: the free cells, the exit cell removed
empty(m, ex) == {cell \in cells(m) : at(m, cell) = CELL_EMPTY} \ {ex}

\* Maze.minimum_reward
minimum_reward(m) == -QUARTER * size(m)

\* mutant of possible_actions: MOVE_RIGHT is removed at the last column only, a
\* wall to the right is not looked at
possible_actions_no_right_wall(m, cell) ==
    LET col == cell[1]
        row == cell[2]
        noUp == row = 0 \/ (row > 0 /\ m[row - 1][col] = CELL_OCCUPIED)
        noDown == row = nrows(m) - 1
                  \/ (row < nrows(m) - 1 /\ m[row + 1][col] = CELL_OCCUPIED)
        noLeft == col = 0 \/ (col > 0 /\ m[row][col - 1] = CELL_OCCUPIED)
        noRight == col = ncols(m) - 1
    IN  actions
          \ ((IF noUp THEN {MOVE_UP} ELSE {})
             \cup (IF noDown THEN {MOVE_DOWN} ELSE {})
             \cup (IF noLeft THEN {MOVE_LEFT} ELSE {})
             \cup (IF noRight THEN {MOVE_RIGHT} ELSE {}))

\* mutant of possible_actions: MOVE_LEFT is always removed
possible_actions_never_left(m, cell) ==
    LET col == cell[1]
        row == cell[2]
        noUp == row = 0 \/ (row > 0 /\ m[row - 1][col] = CELL_OCCUPIED)
        noDown == row = nrows(m) - 1
                  \/ (row < nrows(m) - 1 /\ m[row + 1][col] = CELL_OCCUPIED)
        noRight == col = ncols(m) - 1
                   \/ (col < ncols(m) - 1 /\ m[row][col + 1] = CELL_OCCUPIED)
    IN  actions
          \ ((IF noUp THEN {MOVE_UP} ELSE {})
             \cup (IF noDown THEN {MOVE_DOWN} ELSE {})
             \cup {MOVE_LEFT}
             \cup (IF noRight THEN {MOVE_RIGHT} ELSE {}))

\* Maze.possible_actions(cell): all four actions, then the four removals
possible_actions(m, cell) ==
    LET col == cell[1]
        row == cell[2]
        noUp == row = 0 \/ (row > 0 /\ m[row - 1][col] = CELL_OCCUPIED)
        noDown == row = nrows(m) - 1
                  \/ (row < nrows(m) - 1 /\ m[row + 1][col] = CELL_OCCUPIED)
        noLeft == col = 0 \/ (col > 0 /\ m[row][col - 1] = CELL_OCCUPIED)
        noRight == col = ncols(m) - 1
                   \/ (col < ncols(m) - 1 /\ m[row][col + 1] = CELL_OCCUPIED)
    IN  actions
          \ ((IF noUp THEN {MOVE_UP} ELSE {})
             \cup (IF noDown THEN {MOVE_DOWN} ELSE {})
             \cup (IF noLeft THEN {MOVE_LEFT} ELSE {})
             \cup (IF noRight THEN {MOVE_RIGHT} ELSE {}))

\* the (col, row) arithmetic of update_state for a legal action
step(cell, action) ==
    LET col1 == IF action = MOVE_LEFT THEN cell[1] - 1 ELSE cell[1]
        row1 == IF action # MOVE_LEFT /\ action = MOVE_UP THEN cell[2] - 1 ELSE cell[2]
        col2 == IF action = MOVE_RIGHT THEN col1 + 1 ELSE col1
        row2 == IF action # MOVE_RIGHT /\ action = MOVE_DOWN THEN row1 + 1 ELSE row1
    IN  <<col2, row2>>

\* mutant of status_of: the two checks in the other order
status_lose_first(m, ex, cur, total) ==
    IF total < minimum_reward(m) THEN "lose"
    ELSE IF cur = ex THEN "win"
    ELSE "playing"

\* mutant of status: standing on the exit cell is not a win
status_no_win(m, ex, cur, total) ==
    IF total < minimum_reward(m) THEN "lose" ELSE "playing"

\* Maze.status()
status_of(m, ex, cur, total) ==
    IF cur = ex THEN "win"
    ELSE IF total < minimum_reward(m) THEN "lose"
    ELSE "playing"

\* mutant of move_reward: the visited check made before the exit check
move_reward_visited_first(ex, vis, new) ==
    IF new \in vis THEN PENALTY_VISITED
    ELSE IF new = ex THEN REWARD_EXIT
    ELSE PENALTY_MOVE

\* mutant of move_reward: returning to a visited cell costs nothing
move_reward_free_revisit(ex, vis, new) ==
    IF new = ex THEN REWARD_EXIT
    ELSE IF new \in vis THEN 0
    ELSE PENALTY_MOVE

\* the reward of a legal move onto cell `new` (update_state, the inner if)
move_reward(ex, vis, new) ==
    IF new = ex THEN REWARD_EXIT
    ELSE IF new \in vis THEN PENALTY_VISITED
    ELSE PENALTY_MOVE

\* update_state, the branch of a legal action: the agent moves
legal_move(ex, cur, vis, action) ==
    LET new == step(cur, action)
    IN  [reward |-> move_reward(ex, vis, new),
         current |-> new, previous |-> cur, visited |-> vis \cup {new}]

\* update_state, the two branches that assign a reward only
no_move(cur, prev, vis, reward) ==
    [reward |-> reward, current |-> cur, previous |-> prev, visited |-> vis]

\* mutant of update_state: the check for "no action is possible" is missing
update_state_no_blocked_check(m, ex, cur, prev, vis, action) ==
    IF action \in possible_actions(m, cur)
    THEN legal_move(ex, cur, vis, action)
    ELSE no_move(cur, prev, vis, PENALTY_WALL)

\* mutant of update_state: the action is carried out whether it is possible or
\* not
update_state_through_walls(m, ex, cur, prev, vis, action) ==
    legal_move(ex, cur, vis, action)

\* mutant of update_state: a boxed-in agent is charged minimum_reward, not
\* minimum_reward - 1
update_state_blocked_at_minimum(m, ex, cur, prev, vis, action) ==
    IF possible_actions(m, cur) = {}
    THEN no_move(cur, prev, vis, minimum_reward(m))
    ELSE IF action \in possible_actions(m, cur)
    THEN legal_move(ex, cur, vis, action)
    ELSE no_move(cur, prev, vis, PENALTY_WALL)

\* Maze.update_state(action): the reward and the fields it assigns
update_state(m, ex, cur, prev, vis, action) ==
    LET pa == possible_actions(m, cur)
    IN  IF pa = {}
        THEN no_move(cur, prev, vis, minimum_reward(m) - ONE)
        ELSE IF action \in pa
        THEN legal_move(ex, cur, vis, action)
        ELSE no_move(cur, prev, vis, PENALTY_WALL)

\* mutant of reset_error: the start cell is not compared with the exit cell
reset_error_no_exit_check(m, ex, start_cell) ==
    IF start_cell \notin cells(m) THEN "not inside maze"
    ELSE IF at(m, start_cell) = CELL_OCCUPIED THEN "not free"
    ELSE "ok"

\* the three checks of Maze.reset(start_cell), in the order of the source
reset_error(m, ex, start_cell) ==
    IF start_cell \notin cells(m) THEN "not inside maze"
    ELSE IF at(m, start_cell) = CELL_OCCUPIED THEN "not free"
    ELSE IF start_cell = ex THEN "same as exit"
    ELSE "ok"

\* Maze.observe(): the maze, row-major, with CELL_CURRENT at the agent's cell
observe(m, cur) ==
    [i \in 1..size(m) |->
        LET row == (i - 1) \div ncols(m)
            col == (i - 1) % ncols(m)
        IN  IF <<col, row>> = cur THEN CELL_CURRENT ELSE m[row][col]]

\* ----------------------------------------------------------------- inputs

GridsOf(shapes) ==
    UNION {[0..(s[1] - 1) -> [0..(s[2] - 1) -> {CELL_EMPTY, CELL_OCCUPIED}]] : s \in shapes}

Grids == GridsOf(Shapes)

\* the start cells a caller may pass: the cells of the maze and one cell beyond
\* each of its four edges
StartArgs(m) ==
    cells(m) \cup {<<-1, 0>>, <<ncols(m), 0>>, <<0, -1>>, <<0, nrows(m)>>}

\* Maze.__init__ succeeds: the exit cell is a free cell inside the maze and
\* reset(start_cell) does not raise
Constructed(m, ex, start_cell) ==
    /\ ex \in cells(m)
    /\ at(m, ex) # CELL_OCCUPIED
    /\ reset_error(m, ex, start_cell) = "ok"

\* ----------------------------------------------------------------- free use

InitMaze(grids) ==
    /\ maze \in grids
    /\ exit_cell \in cells(maze)
    /\ current_cell \in cells(maze)
    /\ Constructed(maze, exit_cell, current_cell)
    /\ previous_cell = current_cell
    /\ total_reward = 0
    /\ visited = {}

InitEnv == InitMaze(Grids)

InitCall ==
    /\ last_op = "init"
    /\ last_cell = current_cell
    /\ last_action = -1
    /\ raised = FALSE
    /\ ret_reward = 0
    /\ ret_status = "none"
    /\ ret_actions = {}
    /\ been = {current_cell}
    /\ nmoves = 0
    /\ games = 0

\* no play() call has been made
InitNoPlay ==
    /\ play_pc = "idle"
    /\ play_result = "none"

\* no Experience object exists
InitNoBuffer ==
    /\ memory = <<>>
    /\ max_memory = 0
    /\ log = <<>>

\* no train() call has been made
InitNoTrain ==
    /\ epochs = 0
    /\ epoch = 0
    /\ epsilon = 0
    /\ win_history = <<>>
    /\ win_rate = <<0, 1>>
    /\ train_pc = "none"
    /\ train_status = "none"
    /\ saves = 0

\* no QTable object exists
InitNoQTable ==
    /\ qtable = <<>>
    /\ q_pc = "none"
    /\ q_episode = 0
    /\ q_updates = 0
    /\ q_updated = {}

\* no get_samples call has been made
InitNoSample ==
    /\ sample_arg = -1
    /\ drawn = <<>>
    /\ targets = <<>>
    /\ sample_error = "none"

\* no completion_check() call has been made
InitNoCheck ==
    /\ check_called = FALSE
    /\ check_result = FALSE
    /\ check_pi = <<>>
    /\ train_break = FALSE

\* no QNetwork object exists
InitNoQNet ==
    /\ qn_pc = "none"
    /\ qn_episode = 0
    /\ qn_max_next = 0
    /\ qn_target = 0

Init ==
    /\ InitEnv
    /\ InitCall
    /\ InitNoPlay
    /\ InitNoBuffer
    /\ InitNoTrain
    /\ InitNoQTable
    /\ InitNoSample
    /\ InitNoCheck
    /\ InitNoQNet

\* game.reset(start_cell)
reset(start_cell) ==
    /\ last_op' = "reset"
    /\ last_cell' = start_cell
    /\ last_action' = -1
    /\ ret_reward' = 0
    /\ ret_status' = "none"
    /\ UNCHANGED <<maze, exit_cell, ret_actions>>
    /\ IF reset_error(maze, exit_cell, start_cell) # "ok"
       THEN /\ raised' = TRUE
            /\ UNCHANGED <<current_cell, previous_cell, total_reward, visited, been>>
       ELSE /\ raised' = FALSE
            /\ current_cell' = start_cell
            /\ previous_cell' = start_cell
            /\ total_reward' = 0
            /\ visited' = {}
            /\ been' = {start_cell}

\* game.move(action)
move(action) ==
    /\ LET u == update_state(maze, exit_cell, current_cell, previous_cell, visited, action)
       IN  /\ current_cell' = u.current
           /\ previous_cell' = u.previous
           /\ visited' = u.visited
           /\ total_reward' = total_reward + u.reward
           /\ ret_reward' = u.reward
           /\ ret_status' = status_of(maze, exit_cell, u.current, total_reward + u.reward)
           /\ been' = been \cup {u.current}
    /\ last_op' = "move"
    /\ last_action' = action
    /\ raised' = FALSE
    /\ nmoves' = nmoves + 1
    /\ UNCHANGED <<maze, exit_cell, last_cell, ret_actions>>

\* a caller resets the game
Reset(start_cell) ==
    /\ reset(start_cell)
    /\ UNCHANGED <<nmoves, playVars, bufVars, trainVars, qVars, moreVars>>

\* a caller makes a move, whatever the status of the game is
Move(action) ==
    /\ nmoves < MaxMoves
    /\ move(action)
    /\ UNCHANGED <<playVars, bufVars, trainVars, qVars, moreVars>>

Next ==
    \/ \E start_cell \in StartArgs(maze) : Reset(start_cell)
    \/ \E action \in actions : Move(action)

Spec == Init /\ [][Next]_vars

\* ----------------------------------------------------------------- possible_actions

\* Maze(maze) with the default start cell (0, 0) and the default exit cell
\* (ncols - 1, nrows - 1)
InitQuery ==
    /\ maze \in GridsOf(ShapesQuery)
    /\ exit_cell = <<ncols(maze) - 1, nrows(maze) - 1>>
    /\ current_cell = <<0, 0>>
    /\ Constructed(maze, exit_cell, current_cell)
    /\ previous_cell = current_cell
    /\ total_reward = 0
    /\ visited = {}
    /\ InitCall
    /\ InitNoPlay
    /\ InitNoBuffer
    /\ InitNoTrain
    /\ InitNoQTable
    /\ InitNoSample
    /\ InitNoCheck
    /\ InitNoQNet

\* game.possible_actions(cell)
PossibleActions(cell) ==
    /\ last_op' = "possible_actions"
    /\ last_cell' = cell
    /\ ret_actions' = possible_actions(maze, cell)
    /\ raised' = FALSE
    /\ UNCHANGED <<envVars, last_action, ret_reward, ret_status, been, nmoves>>
    /\ UNCHANGED <<playVars, bufVars, trainVars, qVars, moreVars>>

NextQuery == \E cell \in cells(maze) : PossibleActions(cell)

SpecQuery == InitQuery /\ [][NextQuery]_vars

\* ----------------------------------------------------------------- play

\* The play loop of DeepQNetwork.play and QNetwork.play: reset, then move until
\* the status is "win" or "lose".  The action is the arg-max of the network's
\* prediction, which can be any of the four actions, legal or not.

InitPlay ==
    /\ InitMaze(GridsOf(ShapesPlay))
    /\ InitCall
    /\ InitNoPlay
    /\ InitNoBuffer
    /\ InitNoTrain
    /\ InitNoQTable
    /\ InitNoSample
    /\ InitNoCheck
    /\ InitNoQNet

\* play(start_cell), up to the while loop
PlayReset(start_cell) ==
    /\ play_pc \in {"idle", "done"}
    /\ reset(start_cell)
    /\ nmoves' = 0
    /\ play_pc' = IF raised' THEN "idle" ELSE "loop"
    /\ play_result' = IF raised' THEN "raised" ELSE "none"
    /\ UNCHANGED <<bufVars, trainVars, qVars, moreVars>>

\* one iteration of the while loop
PlayMove(action) ==
    /\ play_pc = "loop"
    /\ move(action)
    /\ IF ret_status' \in {"win", "lose"}
       THEN play_pc' = "done" /\ play_result' = ret_status'
       ELSE UNCHANGED playVars
    /\ UNCHANGED <<bufVars, trainVars, qVars, moreVars>>

PlayLoop == \E action \in actions : PlayMove(action)

NextPlay ==
    \/ \E start_cell \in StartArgs(maze) : PlayReset(start_cell)
    \/ PlayLoop

\* the loop is sequential code: an iteration that can run does run
SpecPlay == InitPlay /\ [][NextPlay]_vars /\ WF_vars(PlayLoop)

\* ----------------------------------------------------------------- Random

\* Random.play(start_cell), up to the while loop
RandomPlayReset(start_cell) ==
    /\ play_pc \in {"idle", "done"}
    /\ reset(start_cell)
    /\ nmoves' = 0
    /\ play_pc' = IF raised' THEN "idle" ELSE "loop"
    /\ play_result' = IF raised' THEN "raised" ELSE "none"
    /\ UNCHANGED <<bufVars, trainVars, qVars, moreVars>>

\* the while loop finds no possible action: break, and the method ends
\* without a return statement
RandomPlayBlocked ==
    /\ play_pc = "loop"
    /\ possible_actions(maze, current_cell) = {}
    /\ play_pc' = "done"
    /\ play_result' = "None"
    /\ UNCHANGED <<envVars, callVars, bufVars, trainVars, qVars, moreVars>>

\* one iteration of the while loop: random.choice(possible_actions), move
RandomPlayMove(action) ==
    /\ play_pc = "loop"
    /\ action \in possible_actions(maze, current_cell)
    /\ move(action)
    /\ IF ret_status' \in {"win", "lose"}
       THEN play_pc' = "done" /\ play_result' = ret_status'
       ELSE UNCHANGED playVars
    /\ UNCHANGED <<bufVars, trainVars, qVars, moreVars>>

NextRandom ==
    \/ \E start_cell \in StartArgs(maze) : RandomPlayReset(start_cell)
    \/ RandomPlayBlocked
    \/ \E action \in actions : RandomPlayMove(action)

SpecRandom == InitPlay /\ [][NextRandom]_vars

\* ----------------------------------------------------------------- Experience

\* mutant of remember: on overflow the newest episode is dropped, not the oldest
remember_drop_newest(mem, cap, episode) ==
    LET appended == Append(mem, episode)
    IN  IF Len(appended) > cap
        THEN SubSeq(appended, 1, Len(appended) - 1)
        ELSE appended

\* Experience.remember(episode): append, then delete memory[0] on overflow
remember(mem, cap, episode) ==
    LET appended == Append(mem, episode)
    IN  IF Len(appended) > cap THEN Tail(appended) ELSE appended

\* the episodes a caller passes to remember: moves of an agent at (0, 0) of the
\* free 1 x 2 maze
EpisodeArgs ==
    {<<<<CELL_CURRENT, CELL_EMPTY>>, a, r, <<CELL_CURRENT, CELL_EMPTY>>, "playing">> :
        a \in {MOVE_LEFT, MOVE_UP}, r \in {PENALTY_WALL}}
    \cup {<<<<CELL_CURRENT, CELL_EMPTY>>, MOVE_RIGHT, REWARD_EXIT,
            <<CELL_EMPTY, CELL_CURRENT>>, "win">>,
          <<<<CELL_EMPTY, CELL_CURRENT>>, MOVE_LEFT, PENALTY_MOVE,
            <<CELL_CURRENT, CELL_EMPTY>>, "playing">>}

\* Experience(model, max_memory=capacity) on a game that is not being played
InitBuffer ==
    /\ InitMaze({[r \in {0} |-> [c \in {0, 1} |-> CELL_EMPTY]]})
    /\ InitCall
    /\ InitNoPlay
    /\ memory = <<>>
    /\ max_memory \in 1..MaxMemory
    /\ log = <<>>
    /\ InitNoTrain
    /\ InitNoQTable
    /\ InitNoSample
    /\ InitNoCheck
    /\ InitNoQNet

\* experience.remember(episode)
Remember(episode) ==
    /\ Len(log) < MaxRemember
    /\ memory' = remember(memory, max_memory, episode)
    /\ log' = Append(log, episode)
    /\ UNCHANGED <<max_memory, envVars, callVars, playVars, trainVars, qVars, moreVars>>

NextBuffer == \E episode \in EpisodeArgs : Remember(episode)

SpecBuffer == InitBuffer /\ [][NextBuffer]_vars

\* Experience.discount, the default of __init__, in hundredths
DISCOUNT_EXPERIENCE == 95

\* the values np.max(self.predict(next_state)) takes, in hundredths: the
\* network is opaque, its prediction for an observation is any number
Predictions == {-50, 100}

\* min(a, b) of two numbers
min(a, b) == IF a < b THEN a ELSE b

\* np.random.choice(range(n), k, replace=True): any k indices
choice_with_replacement(n, k) == [1..k -> 0..(n - 1)]

\* np.random.choice(range(n), k, replace=False): k different indices
choice(n, k) ==
    {js \in [1..k -> 0..(n - 1)] : \A a, b \in 1..k : a # b => js[a] # js[b]}

\* targets[i, move] of get_samples, in units of 10^-4: the reward when the
\* status is "win", else reward + discount * max prediction of next_state
experience_target(reward, st, max_next, discount) ==
    IF st = "win" THEN 100 * reward ELSE 100 * reward + discount * max_next

\* the observations the network is asked to predict for in get_samples
next_states(mem) == {mem[i][4] : i \in 1..Len(mem)}

\* experience.get_samples(sample_size=sample_size); js are the indices
\* np.random.choice draws and net[o] is np.max(self.predict(o)).  On an empty
\* memory self.memory[0] raises IndexError.
get_samples(sample_size, js, net) ==
    /\ sample_arg' = sample_size
    /\ IF memory = <<>>
       THEN /\ sample_error' = "IndexError"
            /\ drawn' = <<>>
            /\ targets' = <<>>
       ELSE /\ js \in choice(Len(memory), min(Len(memory), sample_size))
            /\ sample_error' = "none"
            /\ drawn' = js
            /\ targets' = [i \in 1..Len(js) |->
                             LET episode == memory[js[i] + 1]
                             IN  experience_target(episode[3], episode[5],
                                                   net[episode[4]], DISCOUNT_EXPERIENCE)]
    /\ UNCHANGED <<envVars, callVars, playVars, bufVars, trainVars, qVars, checkVars, qnetVars, games>>

GetSamples ==
    \E sample_size \in 0..MaxSampleSize :
        \E js \in choice_with_replacement(Len(memory), min(Len(memory), sample_size)) :
            \E net \in [next_states(memory) -> Predictions] :
                get_samples(sample_size, js, net)

\* experience.remember(episode) as DeepQNetwork.train calls it, before a
\* get_samples call
SampleRemember(episode) ==
    /\ Len(log) < MaxFill
    /\ Remember(episode)

NextSample ==
    \/ \E episode \in EpisodeArgs : SampleRemember(episode)
    \/ GetSamples

SpecSample == InitBuffer /\ [][NextSample]_vars

\* ----------------------------------------------------------------- DeepQNetwork

\* The network is an external collaborator: model.predict can return any four
\* numbers, so an arg-max of a prediction is any of the four actions, and
\* model.fit changes the network in an unknown way.  get_samples, fit and
\* evaluate are calls of the training step that change the network only.  The
\* locals loss and episode are written to the log only and are left out; the
\* locals state and previous_state always hold the observation of the agent's
\* cell after and before the last move and are written as observe(maze, cell).

EPSILON_START == 10
EPSILON_REDUCED == 5

\* Maze.empty as the list it is: column by column, the exit cell removed
empty_list(m, ex) ==
    LET all == [k \in 1..size(m) |-> <<(k - 1) \div nrows(m), (k - 1) % nrows(m)>>]
    IN  SelectSeq(all, LAMBDA cell : at(m, cell) = CELL_EMPTY /\ cell # ex)

\* sum(seq) of a list of numbers
RECURSIVE sum(_)
sum(seq) == IF seq = <<>> THEN 0 ELSE Head(seq) + sum(Tail(seq))

\* win_history[-history_size:]
last_of(seq, n) == SubSeq(seq, IF Len(seq) > n THEN Len(seq) - n + 1 ELSE 1, Len(seq))

\* history_size = self.game.maze.size // 2
history_size(m) == size(m) \div 2

\* the greedy policies a network can stand for: an action for the observation
\* of every cell the agent can be on while the game is played
Policies(m, ex) == [empty(m, ex) -> actions]

\* DeepQNetwork.play(cell) after its reset, under the policy pi: the fields of
\* the game when the loop returns, and the status returned.  (The next
\* iteration is written with x bound to the value of after, so that the value
\* is computed once.)
RECURSIVE play_loop(_, _, _, _)
play_loop(m, ex, g, pi) ==
    LET u == update_state(m, ex, g.current, g.previous, g.visited, pi[g.current])
        total == g.total + u.reward
        after == [current |-> u.current, previous |-> u.previous,
                  visited |-> u.visited, total |-> total]
        st == status_of(m, ex, u.current, total)
    IN  IF st \in {"win", "lose"}
        THEN [game |-> after, status |-> st]
        ELSE CHOOSE r \in {play_loop(m, ex, x, pi) : x \in {after}} : TRUE

\* mutant of completion_check: only the first cell of game.empty is tried
completion_check_first_only(m, ex, g, pi, i) ==
    LET cell == empty_list(m, ex)[1]
        played == play_loop(m, ex, [current |-> cell, previous |-> cell,
                                    visited |-> {}, total |-> 0], pi)
    IN  IF possible_actions(m, cell) = {} THEN [game |-> g, result |-> FALSE]
        ELSE [game |-> played.game, result |-> played.status # "lose"]

\* DeepQNetwork.completion_check(), from the i-th cell of game.empty on: the
\* value returned and the fields of the game it leaves behind
RECURSIVE completion_check(_, _, _, _, _)
completion_check(m, ex, g, pi, i) ==
    LET cell == empty_list(m, ex)[i]
        played == play_loop(m, ex, [current |-> cell, previous |-> cell,
                                    visited |-> {}, total |-> 0], pi)
    IN  IF i > Len(empty_list(m, ex)) THEN [game |-> g, result |-> TRUE]
        ELSE IF possible_actions(m, cell) = {} THEN [game |-> g, result |-> FALSE]
        ELSE IF played.status = "lose" THEN [game |-> played.game, result |-> FALSE]
        ELSE CHOOSE r \in {completion_check(m, ex, x, pi, i + 1) : x \in {played.game}} : TRUE

\* Maze(maze, start_cell, exit_cell); DeepQNetwork(game)
InitCheck ==
    /\ InitMaze(GridsOf(ShapesCheck))
    /\ InitCall
    /\ InitNoPlay
    /\ InitNoBuffer
    /\ InitNoTrain
    /\ InitNoQTable
    /\ InitNoSample
    /\ InitNoCheck
    /\ InitNoQNet

\* model.completion_check() of a network whose greedy policy is pi; the
\* play-outs leave the game where the last of them ended
CompletionCheck(pi) ==
    /\ LET g == [current |-> current_cell, previous |-> previous_cell,
                 visited |-> visited, total |-> total_reward]
           check == completion_check(maze, exit_cell, g, pi, 1)
       IN  /\ current_cell' = check.game.current
           /\ previous_cell' = check.game.previous
           /\ visited' = check.game.visited
           /\ total_reward' = check.game.total
           /\ check_called' = TRUE
           /\ check_result' = check.result
           /\ check_pi' = pi
    /\ UNCHANGED <<maze, exit_cell, callVars, playVars, bufVars, trainVars, qVars>>
    /\ UNCHANGED <<train_break, sampleVars, qnetVars, games>>

NextCheck == \E pi \in Policies(maze, exit_cell) : CompletionCheck(pi)

SpecCheck == InitCheck /\ [][NextCheck]_vars

\* Maze(maze, start_cell, exit_cell); DeepQNetwork(game); the call
\* train(epochs=.., max_memory=..) up to the for loop, on a maze of one of
\* the shapes
InitTrainOn(shapes) ==
    /\ InitMaze(GridsOf(shapes))
    /\ InitCall
    /\ InitNoPlay
    /\ memory = <<>>
    /\ max_memory \in 1..MaxTrainMemory
    /\ log = <<>>
    /\ epochs \in 1..MaxEpochs
    /\ epoch = 1
    /\ epsilon = EPSILON_START
    /\ win_history = <<>>
    /\ win_rate = <<0, 1>>
    /\ train_pc = IF 1 < epochs THEN "for" ELSE "save"
    /\ train_status = "none"
    /\ saves = 0
    /\ InitNoQTable
    /\ InitNoSample
    /\ InitNoCheck
    /\ InitNoQNet

InitTrain == InitTrainOn(ShapesTrain)

\* the head of the for loop body: a random empty start cell, reset, observe
TrainEpoch(start_cell) ==
    /\ train_pc = "for"
    /\ start_cell \in empty(maze, exit_cell)
    /\ reset(start_cell)
    /\ nmoves' = 0
    /\ train_pc' = "while"
    /\ games' = games + 1
    /\ UNCHANGED <<epochs, epoch, epsilon, win_history, win_rate, train_status, saves>>
    /\ UNCHANGED <<playVars, bufVars, qVars, sampleVars, checkVars, qnetVars>>

\* the while loop finds no possible action: status = "blocked", break
TrainBlocked ==
    /\ train_pc = "while"
    /\ possible_actions(maze, current_cell) = {}
    /\ train_status' = "blocked"
    /\ train_pc' = "end"
    /\ UNCHANGED <<epochs, epoch, epsilon, win_history, win_rate, saves>>
    /\ UNCHANGED <<envVars, callVars, playVars, bufVars, qVars, moreVars>>

\* mutant of TrainMove: the transition is remembered before the status is
\* looked at
TrainMove_remember_first(action) ==
    /\ train_pc = "while"
    /\ possible_actions(maze, current_cell) # {}
    /\ action \in possible_actions(maze, current_cell) \cup actions
    /\ move(action)
    /\ train_status' = ret_status'
    /\ memory' = remember(memory, max_memory,
                          <<observe(maze, current_cell), action, ret_reward',
                            observe(maze, current_cell'), ret_status'>>)
    /\ IF ret_status' \in {"win", "lose"}
       THEN /\ win_history' = Append(win_history, IF ret_status' = "win" THEN 1 ELSE 0)
            /\ train_pc' = "end"
       ELSE UNCHANGED <<win_history, train_pc>>
    /\ UNCHANGED <<epochs, epoch, epsilon, win_rate, saves, max_memory, log, playVars, qVars, moreVars>>

\* one iteration of the while loop: a random possible action or the arg-max of
\* the prediction, the move, and either the end of the game or remember and fit
TrainMove(action) ==
    /\ train_pc = "while"
    /\ possible_actions(maze, current_cell) # {}
    /\ action \in possible_actions(maze, current_cell) \cup actions
    /\ move(action)
    /\ train_status' = ret_status'
    /\ IF ret_status' \in {"win", "lose"}
       THEN /\ win_history' = Append(win_history, IF ret_status' = "win" THEN 1 ELSE 0)
            /\ train_pc' = "end"
            /\ UNCHANGED memory
       ELSE /\ memory' = remember(memory, max_memory,
                                  <<observe(maze, current_cell), action, ret_reward',
                                    observe(maze, current_cell'), ret_status'>>)
            /\ UNCHANGED <<win_history, train_pc>>
    /\ UNCHANGED <<epochs, epoch, epsilon, win_rate, saves, max_memory, log, playVars, qVars, moreVars>>

\* mutant of new_win_rate: recomputed as soon as the history is as long as
\* history_size
new_win_rate_at_least(m, history, rate) ==
    IF Len(history) >= history_size(m)
    THEN <<sum(last_of(history, history_size(m))), history_size(m)>>
    ELSE rate

\* the win rate after the while loop: recomputed when the history is longer
\* than history_size, else as it was
new_win_rate(m, history, rate) ==
    IF Len(history) > history_size(m)
    THEN <<sum(last_of(history, history_size(m))), history_size(m)>>
    ELSE rate

\* mutant of early_stop: any win stops the training
early_stop_any_win(rate, result) == rate[1] > 0

\* `if win_rate == 1 and self.completion_check()`, result being what
\* completion_check() returned (FALSE when it was not called)
early_stop(rate, result) == rate[1] = rate[2] /\ result

\* the rest of the for loop body: the win rate, epsilon, and the early stop
\* when win_rate == 1 and completion_check() holds.  completion_check is
\* called only when win_rate == 1; pi is the policy of the network then, and
\* the play-outs of completion_check leave the game where they ended.
EpochEnd(pi) ==
    /\ train_pc = "end"
    /\ LET recompute == Len(win_history) > history_size(maze)
           rate == new_win_rate(maze, win_history, win_rate)
           g == [current |-> current_cell, previous |-> previous_cell,
                 visited |-> visited, total |-> total_reward]
       IN  \E check \in {IF rate[1] = rate[2]
                           THEN completion_check(maze, exit_cell, g, pi, 1)
                           ELSE [game |-> g, result |-> FALSE]} :
           /\ win_rate' = rate
           /\ epsilon' = IF recompute /\ 10 * rate[1] > 9 * rate[2]
                         THEN EPSILON_REDUCED ELSE epsilon
           /\ current_cell' = check.game.current
           /\ previous_cell' = check.game.previous
           /\ visited' = check.game.visited
           /\ total_reward' = check.game.total
           /\ IF rate[1] = rate[2]
              THEN check_called' = TRUE /\ check_result' = check.result
              ELSE UNCHANGED <<check_called, check_result>>
           /\ train_break' = (train_break \/ early_stop(rate, check.result))
           /\ IF early_stop(rate, check.result) \/ epoch + 1 >= epochs
              THEN train_pc' = "save" /\ epoch' = epoch
              ELSE train_pc' = "for" /\ epoch' = epoch + 1
    /\ UNCHANGED <<epochs, win_history, train_status, saves>>
    /\ UNCHANGED <<maze, exit_cell, callVars, playVars, bufVars, qVars>>
    /\ UNCHANGED <<check_pi, sampleVars, qnetVars, games>>

\* the end of an epoch whose win rate is not 1: no completion_check
TrainEpochEnd ==
    /\ new_win_rate(maze, win_history, win_rate)[1]
         # new_win_rate(maze, win_history, win_rate)[2]
    /\ EpochEnd(CHOOSE pi \in Policies(maze, exit_cell) : TRUE)

\* the end of an epoch whose win rate is 1: completion_check decides
TrainEpochEndCheck(pi) ==
    /\ new_win_rate(maze, win_history, win_rate)[1]
         = new_win_rate(maze, win_history, win_rate)[2]
    /\ EpochEnd(pi)

\* self.save(modelname), after the for loop
TrainSave ==
    /\ train_pc = "save"
    /\ saves' = saves + 1
    /\ train_pc' = "done"
    /\ UNCHANGED <<epochs, epoch, epsilon, win_history, win_rate, train_status>>
    /\ UNCHANGED <<envVars, callVars, playVars, bufVars, qVars, moreVars>>

NextTrain ==
    \/ \E start_cell \in cells(maze) : TrainEpoch(start_cell)
    \/ TrainBlocked
    \/ \E action \in actions : TrainMove(action)
    \/ TrainEpochEnd
    \/ \E pi \in Policies(maze, exit_cell) : TrainEpochEndCheck(pi)
    \/ TrainSave

SpecTrain == InitTrain /\ [][NextTrain]_vars

\* train on the mazes whose win-rate window is two episodes long as well
SpecTrainWide == InitTrainOn(ShapesTrainWide) /\ [][NextTrain]_vars

\* train is sequential code: a step that can run does run
SpecTrainLive == SpecTrain /\ WF_vars(NextTrain)

\* ----------------------------------------------------------------- QNetwork

\* QNetwork.train plays range(1, episodes) games, as QTable.train does, and
\* fits the network after every move.  The network is opaque: the arg-max of a
\* prediction is any action and np.max of a prediction any of Predictions.
\* The local wins is written to the log only and is left out.

\* discount of QNetwork.train, in hundredths
DISCOUNT_QNETWORK == 90

\* mutant of qnetwork_target: only "win" is taken as terminal
qnetwork_target_win_only(reward, st, max_next) ==
    IF st = "win" THEN 100 * reward ELSE 100 * reward + DISCOUNT_QNETWORK * max_next

\* the local target, in units of 10^-4: the reward when the status is "win" or
\* "lose", else reward + discount * np.max(self.model.predict(next_state))
qnetwork_target(reward, st, max_next) ==
    IF st \in {"win", "lose"}
    THEN 100 * reward
    ELSE 100 * reward + DISCOUNT_QNETWORK * max_next

\* Maze(maze, start_cell, exit_cell); QNetwork(game); the call train() up to
\* the for loop
InitQNet ==
    /\ InitMaze(GridsOf(ShapesTrain))
    /\ InitCall
    /\ InitNoPlay
    /\ InitNoBuffer
    /\ InitNoTrain
    /\ InitNoQTable
    /\ InitNoSample
    /\ InitNoCheck
    /\ qn_pc = "for"
    /\ qn_episode = 1
    /\ qn_max_next = 0
    /\ qn_target = 0

\* the head of the for loop body: a random empty start cell, reset, observe
QNetEpisode(start_cell) ==
    /\ qn_pc = "for"
    /\ qn_episode < MaxEpisodes
    /\ start_cell \in empty(maze, exit_cell)
    /\ reset(start_cell)
    /\ nmoves' = 0
    /\ qn_pc' = "while"
    /\ games' = games + 1
    /\ UNCHANGED <<qn_episode, qn_max_next, qn_target>>
    /\ UNCHANGED <<playVars, bufVars, trainVars, qVars, sampleVars, checkVars>>

\* the while loop finds no possible action: status = "blocked", break
QNetBlocked ==
    /\ qn_pc = "while"
    /\ possible_actions(maze, current_cell) = {}
    /\ qn_pc' = "for"
    /\ qn_episode' = qn_episode + 1
    /\ UNCHANGED <<qn_max_next, qn_target>>
    /\ UNCHANGED <<envVars, callVars, playVars, bufVars, trainVars, qVars, sampleVars, checkVars, games>>

\* one iteration of the while loop: a random possible action or the arg-max of
\* the prediction, the move, the target and the fit, and the end of the
\* episode when the status is "win" or "lose".  max_next is what
\* np.max(self.model.predict(next_state)) is for the network of this step.
QNetMove(action, max_next) ==
    /\ qn_pc = "while"
    /\ possible_actions(maze, current_cell) # {}
    /\ move(action)
    /\ qn_max_next' = max_next
    /\ qn_target' = qnetwork_target(ret_reward', ret_status', max_next)
    /\ IF ret_status' \in {"win", "lose"}
       THEN qn_pc' = "for" /\ qn_episode' = qn_episode + 1
       ELSE UNCHANGED <<qn_pc, qn_episode>>
    /\ UNCHANGED <<playVars, bufVars, trainVars, qVars, sampleVars, checkVars, games>>

\* after the for loop: train() returns
QNetDone ==
    /\ qn_pc = "for"
    /\ qn_episode >= MaxEpisodes
    /\ qn_pc' = "done"
    /\ UNCHANGED <<qn_episode, qn_max_next, qn_target>>
    /\ UNCHANGED <<envVars, callVars, playVars, bufVars, trainVars, qVars, sampleVars, checkVars, games>>

NextQNet ==
    \/ \E start_cell \in cells(maze) : QNetEpisode(start_cell)
    \/ QNetBlocked
    \/ \E action \in actions : \E max_next \in Predictions : QNetMove(action, max_next)
    \/ QNetDone

SpecQNet == InitQNet /\ [][NextQNet]_vars

\* ----------------------------------------------------------------- QTable

\* Q values are floats in the source.  They are modelled exactly, as integers
\* in units of 10^-8: with learning_rate 0.3 and discount 0.9 every value
\* reached within MaxUpdates + 1 updates is a multiple of that unit.  The
\* local wins is written to the log only and is left out.

\* 1.0 in Q units, and a reward in hundredths as a Q value
Q_ONE == 10 ^ 8
q_of_reward(r) == r * (Q_ONE \div ONE)

\* np.nan: a value no Q value takes
NAN == -2000000000

\* the key of a cell: tuple(state.flatten()) of the observation
key(m, cell) == observe(m, cell)

\* max(list) of the four Q values
max_q(q) == CHOOSE x \in {q[i] : i \in 1..4} : \A i \in 1..4 : q[i] <= x

\* np.nanargmax(q) of a list that is not all nan: the first index (an
\* action, 0-based) of the largest value that is not nan
nanargmax(q) ==
    LET vals == {q[i] : i \in {j \in 1..4 : q[j] # NAN}}
        best == CHOOSE x \in vals : \A y \in vals : y <= x
    IN  (CHOOSE i \in 1..4 : q[i] = best /\ \A j \in 1..(i - 1) : q[j] # best) - 1

\* np.nanargmax raises ValueError ("All-NaN slice encountered")
all_nan(q) == \A i \in 1..4 : q[i] = NAN

\* mutant of td_update: the value of the next state is left out
td_update_no_bootstrap(q, reward, max_next) ==
    q + 3 * ((q_of_reward(reward) - q) \div 10)

\* q + learning_rate * (reward + discount * max_next - q), with
\* learning_rate = 0.3 and discount = 0.9
td_update(q, reward, max_next) ==
    q + 3 * ((q_of_reward(reward) + 9 * (max_next \div 10) - q) \div 10)

\* mutant of to_nan: the zeros are kept
to_nan_keep_zero(q) == q

\* [np.nan if q == 0 else q for q in self.qtable[key]]
to_nan(q) == [i \in 1..4 |-> IF q[i] = 0 THEN NAN ELSE q[i]]

\* Maze(maze, start_cell, exit_cell); QTable(game); the call train() up to the
\* for loop
InitQTable ==
    /\ InitMaze(GridsOf(ShapesQ))
    /\ InitCall
    /\ InitNoPlay
    /\ InitNoBuffer
    /\ InitNoTrain
    /\ qtable = [k \in {key(maze, cell) : cell \in cells(maze)} |-> <<0, 0, 0, 0>>]
    /\ q_pc = "for"
    /\ q_episode = 1
    /\ q_updates = 0
    /\ q_updated = {}
    /\ InitNoSample
    /\ InitNoCheck
    /\ InitNoQNet

\* the head of the for loop body: a random empty start cell, reset, observe
QTrainEpisode(start_cell) ==
    /\ q_pc = "for"
    /\ q_episode < MaxEpisodes
    /\ start_cell \in empty(maze, exit_cell)
    /\ reset(start_cell)
    /\ nmoves' = 0
    /\ q_pc' = "while"
    /\ games' = games + 1
    /\ UNCHANGED <<qtable, q_episode, q_updates, q_updated, playVars, bufVars, trainVars>>
    /\ UNCHANGED <<sampleVars, checkVars, qnetVars>>

\* the while loop finds no possible action: status = "blocked", break
QTrainBlocked ==
    /\ q_pc = "while"
    /\ possible_actions(maze, current_cell) = {}
    /\ q_pc' = "for"
    /\ q_episode' = q_episode + 1
    /\ UNCHANGED <<qtable, q_updates, q_updated, envVars, callVars, playVars, bufVars, trainVars, moreVars>>

\* one iteration of the while loop: a random possible action or the arg-max of
\* the Q values of the state, the move, the update of the table, and the end
\* of the episode when the status is "win" or "lose"
QTrainMove(action) ==
    /\ q_pc = "while"
    /\ q_updates < MaxUpdates
    /\ possible_actions(maze, current_cell) # {}
    /\ action \in possible_actions(maze, current_cell)
                    \cup {nanargmax(qtable[key(maze, current_cell)])}
    /\ move(action)
    /\ LET s == key(maze, current_cell)
           next_state == key(maze, current_cell')
       IN  qtable' = [qtable EXCEPT ![s][action + 1] =
                         td_update(@, ret_reward', max_q(qtable[next_state]))]
    /\ q_updates' = q_updates + 1
    /\ q_updated' = q_updated \cup {<<key(maze, current_cell), action>>}
    /\ IF ret_status' \in {"win", "lose"}
       THEN q_pc' = "for" /\ q_episode' = q_episode + 1
       ELSE UNCHANGED <<q_pc, q_episode>>
    /\ UNCHANGED <<playVars, bufVars, trainVars, moreVars>>

\* after the for loop: every Q value that is 0 becomes nan
QTrainConvert ==
    /\ q_pc = "for"
    /\ q_episode >= MaxEpisodes
    /\ qtable' = [k \in DOMAIN qtable |-> to_nan(qtable[k])]
    /\ q_pc' = "trained"
    /\ UNCHANGED <<q_episode, q_updates, q_updated, envVars, callVars, playVars, bufVars, trainVars, moreVars>>

\* QTable.play(start_cell) after train(), up to the while loop
QPlayReset(start_cell) ==
    /\ q_pc = "trained"
    /\ play_pc \in {"idle", "done", "raised"}
    /\ start_cell \in empty(maze, exit_cell)
    /\ reset(start_cell)
    /\ nmoves' = 0
    /\ play_pc' = "loop"
    /\ play_result' = "none"
    /\ UNCHANGED <<bufVars, trainVars, qVars, moreVars>>

\* one iteration of the while loop of play: nanargmax raises ValueError when
\* the four Q values of the state are nan
QPlayMove ==
    /\ play_pc = "loop"
    /\ q_pc = "trained"
    /\ LET q == qtable[key(maze, current_cell)]
       IN  IF all_nan(q)
           THEN /\ play_pc' = "raised"
                /\ play_result' = "ValueError"
                /\ UNCHANGED <<envVars, callVars>>
           ELSE /\ move(nanargmax(q))
                /\ IF ret_status' \in {"win", "lose"}
                   THEN play_pc' = "done" /\ play_result' = ret_status'
                   ELSE UNCHANGED playVars
    /\ UNCHANGED <<bufVars, trainVars, qVars, moreVars>>

NextQTable ==
    \/ \E start_cell \in cells(maze) : QTrainEpisode(start_cell)
    \/ QTrainBlocked
    \/ \E action \in actions : QTrainMove(action)
    \/ QTrainConvert
    \/ \E start_cell \in cells(maze) : QPlayReset(start_cell)
    \/ QPlayMove

SpecQTable == InitQTable /\ [][NextQTable]_vars

\* ----------------------------------------------------------------- claims: Maze

\* what status() returns in the current state
status == status_of(maze, exit_cell, current_cell, total_reward)

\* the cell next to `cell` in the direction of `action`
neighbour(cell, action) ==
    CASE action = MOVE_LEFT -> <<cell[1] - 1, cell[2]>>
      [] action = MOVE_RIGHT -> <<cell[1] + 1, cell[2]>>
      [] action = MOVE_UP -> <<cell[1], cell[2] - 1>>
      [] action = MOVE_DOWN -> <<cell[1], cell[2] + 1>>

\* this step is a call move(last_action')
IsMove == last_op' = "move" /\ nmoves' = nmoves + 1

\* this step is a legal move: the action taken is one possible_actions allows
IsLegalMove == IsMove /\ last_action' \in possible_actions(maze, current_cell)

\* C1: a legal move whose target cell is not the exit and is a cell the agent
\* has already been in since the last reset returns reward -0.25 and status
\* "playing".
C1_RevisitPenalty ==
    [][(IsLegalMove
        /\ neighbour(current_cell, last_action') # exit_cell
        /\ neighbour(current_cell, last_action') \in been)
       => (ret_reward' = PENALTY_VISITED /\ ret_status' = "playing")]_vars

\* C2 as stated: a move whose target cell is occupied leaves the position
\* unchanged and returns reward -0.75.
TargetOccupied(cell, action) ==
    /\ neighbour(cell, action) \in cells(maze)
    /\ at(maze, neighbour(cell, action)) = CELL_OCCUPIED

C2_WallPenaltyAlways ==
    [][(IsMove /\ TargetOccupied(current_cell, last_action'))
       => (current_cell' = current_cell /\ ret_reward' = PENALTY_WALL)]_vars

\* C2 amended: a move whose target cell is occupied leaves the position
\* unchanged; it returns reward -0.75 when the current cell has at least one
\* legal move, and minimum_reward - 1 when it has none.
C2_WallPenalty ==
    [][(IsMove /\ TargetOccupied(current_cell, last_action'))
       => (/\ current_cell' = current_cell
           /\ previous_cell' = previous_cell
           /\ visited' = visited
           /\ ret_reward' = IF possible_actions(maze, current_cell) = {}
                            THEN minimum_reward(maze) - ONE
                            ELSE PENALTY_WALL
           /\ total_reward' = total_reward + ret_reward')]_vars

\* a move into a wall was made from a cell that has a legal move, and cost 0.75
C2_Witness ==
    /\ last_op = "move"
    /\ TargetOccupied(current_cell, last_action)
    /\ possible_actions(maze, current_cell) # {}
    /\ ret_reward = PENALTY_WALL

\* C3 as stated: whenever the cumulative reward is below -0.25 * rows * cols,
\* status() returns "lose", whatever the position.
C3_LoseWhateverPosition ==
    total_reward < -QUARTER * nrows(maze) * ncols(maze) => status = "lose"

\* C3 amended: whenever the cumulative reward is below -0.25 * rows * cols,
\* status() returns "lose" unless the agent is on the exit cell, where it
\* returns "win"; the status move() returned is the same.
C3_LoseUnlessOnExit ==
    total_reward < -QUARTER * nrows(maze) * ncols(maze)
    => /\ status = IF current_cell = exit_cell THEN "win" ELSE "lose"
       /\ last_op = "move" => ret_status = status

\* moves drove the cumulative reward below the minimum away from the exit
C3_Witness ==
    /\ last_op = "move"
    /\ total_reward < -QUARTER * nrows(maze) * ncols(maze)
    /\ current_cell # exit_cell
    /\ ret_status = "lose"

\* C4: a legal move that puts the agent on the exit cell returns reward 1.0
\* and status "win", also when the exit was visited before or the cumulative
\* reward is low.
C4_ExitWins ==
    [][(IsLegalMove /\ neighbour(current_cell, last_action') = exit_cell)
       => (/\ ret_reward' = REWARD_EXIT
           /\ ret_status' = "win"
           /\ current_cell' = exit_cell)]_vars

\* the agent stepped onto the exit while the cumulative reward, the 1.0
\* included, was below the minimum
C4_Witness ==
    /\ last_op = "move"
    /\ last_action \in actions
    /\ current_cell = exit_cell
    /\ previous_cell # exit_cell
    /\ neighbour(previous_cell, last_action) = exit_cell
    /\ ret_reward = REWARD_EXIT
    /\ total_reward < minimum_reward(maze)

\* C5: possible_actions(cell) is exactly the set of directions whose target
\* cell is inside the grid and not occupied; row 0 never allows UP, the last
\* row never DOWN, column 0 never LEFT and the last column never RIGHT.
C5_PossibleActions ==
    last_op = "possible_actions"
    => /\ ret_actions = {a \in actions :
                            /\ neighbour(last_cell, a) \in cells(maze)
                            /\ at(maze, neighbour(last_cell, a)) # CELL_OCCUPIED}
       /\ last_cell[2] = 0 => MOVE_UP \notin ret_actions
       /\ last_cell[2] = nrows(maze) - 1 => MOVE_DOWN \notin ret_actions
       /\ last_cell[1] = 0 => MOVE_LEFT \notin ret_actions
       /\ last_cell[1] = ncols(maze) - 1 => MOVE_RIGHT \notin ret_actions

\* possible_actions was asked for a cell with four neighbours, two of them walls
C5_Witness ==
    /\ last_op = "possible_actions"
    /\ \A a \in actions : neighbour(last_cell, a) \in cells(maze)
    /\ Cardinality(ret_actions) = 2

\* C6: reset(start_cell) raises exactly when start_cell is outside the grid,
\* on an occupied cell or equal to the exit cell; otherwise it sets current
\* and previous position to start_cell, the cumulative reward to 0, the
\* visited set to empty, and status() is "playing".
C6_Reset ==
    last_op = "reset"
    => /\ raised <=> \/ last_cell \notin cells(maze)
                     \/ at(maze, last_cell) = CELL_OCCUPIED
                     \/ last_cell = exit_cell
       /\ ~raised => /\ current_cell = last_cell
                     /\ previous_cell = last_cell
                     /\ total_reward = 0
                     /\ visited = {}
                     /\ status = "playing"

\* a reset succeeded after moves had been made
C6_Witness ==
    /\ last_op = "reset"
    /\ ~raised
    /\ nmoves > 0
    /\ current_cell = last_cell

\* ----------------------------------------------------------------- claims: play

\* C7: the game always reaches a terminal state: whatever actions the player
\* chooses, the loop 'move until status is win or lose' stops after finitely
\* many moves (at most 0.25 * size / 0.04 moves leave the game "playing") with
\* status "win" or "lose".
C7_Terminates ==
    /\ [](play_pc = "loop" => 4 * nmoves <= QUARTER * size(maze))
    /\ (play_pc = "loop") ~> (play_pc = "done" /\ play_result \in {"win", "lose"})

\* a play-out ended in "lose" after the agent had moved through several cells
C7_Witness ==
    /\ play_pc = "done"
    /\ play_result = "lose"
    /\ Cardinality(visited) >= 2
    /\ nmoves >= 4

\* ----------------------------------------------------------------- claims: Experience

Min(a, b) == IF a < b THEN a ELSE b

\* C10: for a buffer of capacity C >= 1, after n remember calls the buffer
\* holds exactly the last min(n, C) remembered episodes in insertion order;
\* after C + 1 insertions its size is C and the first-inserted episode is no
\* longer in it (unless an equal episode was inserted again later).
C10_LastInserted ==
    LET n == Len(log)
        C == max_memory
    IN  C >= 1
        => /\ memory = SubSeq(log, n - Min(n, C) + 1, n)
           /\ n = C + 1
              => /\ Len(memory) = C
                 /\ (\A i \in 2..n : log[i] # log[1])
                    => \A j \in 1..Len(memory) : memory[j] # log[1]

\* the buffer overflowed: C + 1 different episodes were inserted into a buffer
\* of capacity C >= 2
C10_Witness ==
    /\ max_memory >= 2
    /\ Len(log) = max_memory + 1
    /\ \A i, j \in 1..Len(log) : i # j => log[i] # log[j]
    /\ Len(memory) = max_memory

\* ----------------------------------------------------------------- claims: DeepQNetwork

\* C9: in DeepQNetwork.train an episode that ends because the agent has no
\* legal move (status "blocked") is recorded as a lost episode in win_history,
\* and no transition of it is remembered in the experience buffer.
C9_BlockedIsLoss ==
    [][(train_pc = "while" /\ train_pc' = "end" /\ train_status' = "blocked")
       => (/\ win_history' = Append(win_history, 0)
           /\ nmoves = 0
           /\ memory' = memory)]_vars

\* ----------------------------------------------------------------- claims: QTable

\* C8: after QTable.train, QTable.play(start_cell) returns "win" or "lose"
\* without raising for every valid start cell, also when the play-out reaches
\* a state whose four Q values are all the unestimated sentinel.
C8_PlayNeverRaises ==
    q_pc = "trained"
    => /\ play_pc # "raised"
       /\ play_pc = "done" => play_result \in {"win", "lose"}

\* the integer model of the Q values is exact: before every update of train
\* each Q value is a whole multiple of 100 units, so the divisions by 10 in
\* td_update leave no remainder
QExact ==
    q_pc \in {"for", "while"}
    => \A k \in DOMAIN qtable : \A i \in 1..4 : qtable[k][i] % 100 = 0

\* ----------------------------------------------------------------- claims: get_samples

\* the step is a get_samples call that returned
IsGetSamples ==
    /\ sample_error' = "none"
    /\ <<sample_arg, drawn, targets>>' # <<sample_arg, drawn, targets>>

\* C11: get_samples(sample_size) on a buffer holding m >= 1 transitions
\* returns exactly min(m, sample_size) training pairs, each built from a
\* different buffer index, every index being one currently in the buffer.
C11_SamplesDistinct ==
    [][IsGetSamples
       => /\ Len(memory) >= 1
          /\ Len(drawn') = Min(Len(memory), sample_arg')
          /\ Len(targets') = Len(drawn')
          /\ Cardinality({drawn'[i] : i \in 1..Len(drawn')}) = Len(drawn')
          /\ \A i \in 1..Len(drawn') : drawn'[i] + 1 \in 1..Len(memory')]_vars

\* a batch of two was drawn from a buffer of three, index 2 before index 0
C11_Witness ==
    /\ sample_error = "none"
    /\ sample_arg = 2
    /\ Len(memory) = 3
    /\ drawn = <<2, 0>>

\* ----------------------------------------------------------------- claims: completion_check

\* the play-out of play(cell) under the policy pi
play_from(cell, pi) ==
    play_loop(maze, exit_cell, [current |-> cell, previous |-> cell,
                                visited |-> {}, total |-> 0], pi)

\* the cell passes: it has a legal move and its play-out ends in "win"
Passes(cell, pi) ==
    /\ possible_actions(maze, cell) # {}
    /\ play_from(cell, pi).status = "win"

\* the free cells that are not the exit
FreeCells == {cell \in cells(maze) : at(maze, cell) = CELL_EMPTY /\ cell # exit_cell}

\* the position in game.empty of the first cell that does not pass
FirstFailing(pi) ==
    CHOOSE i \in 1..Len(empty_list(maze, exit_cell)) :
        /\ ~Passes(empty_list(maze, exit_cell)[i], pi)
        /\ \A j \in 1..(i - 1) : Passes(empty_list(maze, exit_cell)[j], pi)

\* C12: completion_check() returns True if and only if every free non-exit
\* cell has at least one legal move and a play-out started from it ends in
\* "win"; it returns False as soon as one such cell has no legal move or its
\* play-out ends in "lose": no later cell is played, the game is left where
\* the play-out of the failing cell ended.
C12_CompletionCheck ==
    check_called
    => /\ check_result = (\A cell \in FreeCells : Passes(cell, check_pi))
       /\ (~check_result /\ possible_actions(maze, empty_list(maze, exit_cell)[FirstFailing(check_pi)]) # {})
            => LET left == play_from(empty_list(maze, exit_cell)[FirstFailing(check_pi)], check_pi).game
               IN  /\ current_cell = left.current
                   /\ visited = left.visited
                   /\ total_reward = left.total

\* a check that returned False at the second of three free cells, after the
\* first one won
C12_Witness ==
    /\ check_called
    /\ ~check_result
    /\ Cardinality(FreeCells) = 3
    /\ FirstFailing(check_pi) = 2
    /\ play_from(empty_list(maze, exit_cell)[2], check_pi).status = "lose"

\* a check that returned True on a maze with three free cells
C12_WitnessTrue ==
    /\ check_called
    /\ check_result
    /\ Cardinality(FreeCells) = 3

\* C13: after QTable.train, every table slot (state, action) that was never
\* updated during training holds the unestimated sentinel, and in QTable.play
\* the greedy choice for a state never selects a sentinel slot when that state
\* has at least one non-sentinel slot: it selects a largest estimated one.
C13_SentinelNeverChosen ==
    /\ [](q_pc = "trained"
           => \A k \in DOMAIN qtable : \A a \in actions :
                  <<k, a>> \notin q_updated => qtable[k][a + 1] = NAN)
    /\ [][(q_pc = "trained" /\ play_pc = "loop" /\ last_op' = "move" /\ nmoves' = nmoves + 1)
           => LET q == qtable[key(maze, current_cell)]
              IN  /\ q[last_action' + 1] # NAN
                  /\ \A i \in 1..4 : q[i] # NAN => q[i] <= q[last_action' + 1]]_vars

\* a play-out won by a move chosen in a state that has both estimated and
\* sentinel slots
C13_Witness ==
    /\ q_pc = "trained"
    /\ play_pc = "done"
    /\ play_result = "win"
    /\ last_op = "move"
    /\ LET q == qtable[key(maze, previous_cell)]
       IN  /\ \E i \in 1..4 : q[i] = NAN
           /\ \E i \in 1..4 : q[i] # NAN /\ q[i] < q[last_action + 1]

\* ----------------------------------------------------------------- claims: Random

\* C14: Random.play(start_cell) returns "win" or "lose" for every grid and
\* every valid start cell, whatever random moves are drawn.
C14_RandomReturnsStatus ==
    play_pc = "done" => play_result \in {"win", "lose"}

\* ----------------------------------------------------------------- claims: early stop

\* the step is the end of an epoch
IsEpochEnd == train_pc = "end" /\ train_pc' # "end"

\* C15: DeepQNetwork.train stops before its epoch budget is used up if and
\* only if, at the end of some epoch, the rolling win rate equals 1.0 and
\* completion_check() returns True; completion_check is not what stops training
\* while the win rate is below 1.0, and in every case training ends (early or
\* at the budget) and the model is saved once.
C15_EarlyStop ==
    /\ [][IsEpochEnd
           => LET passed == /\ win_rate'[1] = win_rate'[2]
                            /\ check_called' /\ check_result'
              IN  /\ (train_pc' = "save" /\ epoch + 1 < epochs) => passed
                  /\ passed => train_pc' = "save"
                  /\ train_break' = passed
                  /\ win_rate'[1] # win_rate'[2]
                       => UNCHANGED <<check_called, check_result>>]_vars
    /\ [](saves <= 1)
    /\ [](train_pc = "done" => saves = 1)
    /\ <>[](train_pc = "done" /\ saves = 1)

\* training stopped by the break with epochs of the budget left
C15_Witness ==
    /\ train_pc = "done"
    /\ train_break
    /\ epoch + 1 < epochs
    /\ saves = 1

\* ----------------------------------------------------------------- claims: QNetwork

\* the last step of QNetwork.train was a move, whose target is qn_target
QNetMoved == qn_pc # "none" /\ last_op = "move"

\* C16 as stated: for every transition, QNetwork.train writes at the taken
\* action's index the same target as the rule of Experience.get_samples: the
\* raw reward when status is "win", and reward + discount * max predicted
\* value of next_state for every other status.
C16_SameTargetAsBuffer ==
    QNetMoved
    => qn_target = experience_target(ret_reward, ret_status, qn_max_next, DISCOUNT_QNETWORK)

\* C16, amended: QNetwork.train writes the raw reward when status is "win" or
\* "lose", and reward + discount * max predicted value of next_state when
\* status is "playing"; this is the target of the rule of get_samples (taken
\* with the same discount) for "win" and "playing", and differs from it for
\* "lose" by discount * max predicted value of next_state.
C16_TargetTerminalRaw ==
    QNetMoved
    => /\ ret_status \in {"win", "lose"} => qn_target = 100 * ret_reward
       /\ ret_status = "playing"
            => qn_target = 100 * ret_reward + DISCOUNT_QNETWORK * qn_max_next
       /\ ret_status \in {"win", "playing"}
            => qn_target = experience_target(ret_reward, ret_status, qn_max_next,
                                             DISCOUNT_QNETWORK)
       /\ ret_status = "lose"
            => experience_target(ret_reward, ret_status, qn_max_next, DISCOUNT_QNETWORK)
                 - qn_target = DISCOUNT_QNETWORK * qn_max_next

\* a move that lost the game, with a prediction for next_state that is not 0
C16_Witness ==
    /\ QNetMoved
    /\ ret_status = "lose"
    /\ qn_max_next # 0

\* ----------------------------------------------------------------- claims: boxed in

\* C17: when no action is legal from the current cell, move(action) for each
\* of the four actions leaves the position and the visited set unchanged,
\* returns reward minimum_reward - 1, and the status it returns is "lose".
C17_BoxedInLoses ==
    [][(IsMove /\ possible_actions(maze, current_cell) = {})
       => (/\ current_cell' = current_cell
           /\ visited' = visited
           /\ ret_reward' = minimum_reward(maze) - ONE
           /\ ret_status' = "lose")]_vars

\* the first move of a boxed-in agent, made downwards
C17_Witness ==
    /\ last_op = "move"
    /\ last_action = MOVE_DOWN
    /\ possible_actions(maze, current_cell) = {}
    /\ total_reward = minimum_reward(maze) - ONE
    /\ ret_status = "lose"

\* ----------------------------------------------------------------- claims: remembered transitions

\* C18: every transition that DeepQNetwork.train stores in the experience
\* buffer has status "playing": the transition of a move that ends the episode
\* in "win" or "lose" is never remembered, so no stored transition carries the
\* exit reward 1.0.
C18_OnlyPlayingRemembered ==
    /\ [](\A i \in 1..Len(memory) :
              memory[i][5] = "playing" /\ memory[i][3] # REWARD_EXIT)
    /\ [][(train_pc = "while" /\ train_pc' = "end" /\ train_status' \in {"win", "lose"})
           => memory' = memory]_vars

\* an episode has been won and the buffer holds a transition
C18_Witness ==
    /\ train_pc = "end"
    /\ train_status = "win"
    /\ last_op = "move"
    /\ ret_reward = REWARD_EXIT
    /\ Len(memory) = 1
    /\ memory[1][5] = "playing"

\* ----------------------------------------------------------------- claims: Q-table update

\* the step is a training step of QTable.train
IsQTrainStep == q_pc = "while" /\ q_updates' = q_updates + 1

\* C19: each training step of QTable.train changes exactly one Q-table slot,
\* the one of (observation before the move, action taken), by the
\* temporal-difference rule new = old + 0.3 * (reward + 0.9 * max(Q[s']) - old);
\* every other slot, including the other three actions of that state and all
\* slots of the next state, is left unchanged, and the table's key set never
\* changes.
C19_OneSlotUpdated ==
    /\ [][IsQTrainStep
           => LET s == key(maze, current_cell)
                  a == last_action' + 1
                  next == qtable[key(maze, current_cell')]
              IN  /\ \A k \in DOMAIN qtable : \A i \in 1..4 :
                         (k # s \/ i # a) => qtable'[k][i] = qtable[k][i]
                  /\ qtable'[s][a] # qtable[s][a]
                  /\ \E i \in 1..4 :
                         /\ \A j \in 1..4 : next[j] <= next[i]
                         /\ next[i] % 10 = 0
                         /\ 10 * (qtable'[s][a] - qtable[s][a])
                              = 3 * (q_of_reward(ret_reward') + 9 * (next[i] \div 10)
                                     - qtable[s][a])]_vars
    /\ [](q_pc # "none" => DOMAIN qtable = {key(maze, cell) : cell \in cells(maze)})

\* a training step whose next state is another state with a value that is
\* not 0, which changed a slot of a state that has three slots never updated
C19_Witness ==
    /\ q_pc = "while"
    /\ last_op = "move"
    /\ current_cell # previous_cell
    /\ max_q(qtable[key(maze, current_cell)]) > 0
    /\ qtable[key(maze, previous_cell)][last_action + 1] > 0
    /\ Cardinality({i \in 1..4 : qtable[key(maze, previous_cell)][i] = 0}) = 3

\* ----------------------------------------------------------------- claims: win rate

\* W = floor(cell count / 2)
W == size(maze) \div 2

\* the number of wins among the W most recently recorded episodes
WinsInWindow ==
    Cardinality({i \in (Len(win_history) - W + 1)..Len(win_history) : win_history[i] = 1})

\* the win rate the epoch end leaves is WinsInWindow / W
RateIsWindow == win_rate'[1] * W = WinsInWindow * win_rate'[2]

\* C20 as stated: at the end of every epoch at which at least W finished
\* episodes have been recorded, the win rate used for epsilon reduction and
\* early stopping equals (wins among the W most recently recorded) / W.
C20_WindowFromW ==
    [][(IsEpochEnd /\ Len(win_history) >= W) => RateIsWindow]_vars

\* C20, amended: at the end of every epoch at which more than W finished
\* episodes have been recorded, the win rate equals (wins among the W most
\* recently recorded) / W; with W or fewer recorded it stays 0.0.  Epsilon is
\* lowered (0.1 to 0.05) at the first such epoch end whose rate exceeds 0.9 and
\* is never raised again.
C20_WindowAfterW ==
    /\ [][IsEpochEnd
           => /\ Len(win_history) > W
                   => /\ RateIsWindow
                      /\ epsilon' = IF 10 * WinsInWindow > 9 * W
                                    THEN EPSILON_REDUCED ELSE epsilon
              /\ Len(win_history) <= W
                   => /\ win_rate' = <<0, 1>>
                      /\ epsilon' = epsilon]_vars
    /\ [][epsilon' <= epsilon]_vars
    /\ [](train_pc # "none" => epsilon \in {EPSILON_START, EPSILON_REDUCED})

\* a window of two: three episodes recorded, the first lost and the last two
\* won, so the rate is 1 and epsilon has been lowered
C20_Witness ==
    /\ train_pc \in {"for", "save"}
    /\ W = 2
    /\ win_history = <<0, 1, 1>>
    /\ win_rate = <<2, 2>>
    /\ epsilon = EPSILON_REDUCED

\* ----------------------------------------------------------------- claims: training games

\* C21: QNetwork.train and QTable.train each play exactly `episodes` training
\* games, and DeepQNetwork.train(epochs=N) plays exactly N training games when
\* it is not stopped early.
C21_GamesPlayed ==
    /\ q_pc = "trained" => games = MaxEpisodes
    /\ qn_pc = "done" => games = MaxEpisodes
    /\ (train_pc = "done" /\ ~train_break) => games = epochs

\* what the loops `for .. in range(1, n)` do play: n - 1 games (none for n = 0)
GamesPlayedOneLess ==
    /\ q_pc = "trained" => games = MaxEpisodes - 1
    /\ qn_pc = "done" => games = MaxEpisodes - 1
    /\ (train_pc = "done" /\ ~train_break) => games = epochs - 1

\* ----------------------------------------------------------------- claims: implicit invariants

\* the cell is inside the grid and free
FreeInGrid(cell) == cell \in cells(maze) /\ at(maze, cell) = CELL_EMPTY

\* C22: after any sequence of successful reset calls and move calls (legal,
\* illegal or boxed-in) on a successfully constructed Maze, the agent's
\* current cell is inside the grid and on a free cell, the grid itself is
\* never modified, and every cell in the visited set is a free in-grid cell.
C22_AgentOnFreeCell ==
    /\ [](FreeInGrid(current_cell) /\ \A cell \in visited : FreeInGrid(cell))
    /\ [][maze' = maze]_vars

\* the agent has moved to another cell and then walked into a wall
C22_Witness ==
    /\ last_op = "move"
    /\ TargetOccupied(current_cell, last_action)
    /\ ret_reward = PENALTY_WALL
    /\ visited # {}
    /\ Cardinality(been) >= 2

\* C23: after any move that changed the agent's position, possible_actions()
\* of the current cell is non-empty; hence within an episode the agent can be
\* without a legal move only at its start cell before any position change, and
\* a training episode can end as "blocked" only before its first move.
C23_BlockedOnlyAtStart ==
    /\ [][(IsMove /\ current_cell' # current_cell)
           => possible_actions(maze, current_cell') # {}]_vars
    /\ []((train_pc = "while" /\ possible_actions(maze, current_cell) = {})
           => (been = {current_cell} /\ visited = {}))
    /\ [][(train_pc = "while" /\ train_pc' = "end" /\ train_status' = "blocked")
           => (nmoves = 0 /\ last_op = "reset")]_vars

\* in a training episode the agent has moved into a dead end: the only legal
\* move is the way back
C23_Witness ==
    /\ train_pc = "while"
    /\ last_op = "move"
    /\ current_cell # previous_cell
    /\ Cardinality(possible_actions(maze, current_cell)) = 1

\* the cells an agent in training never makes a move from: the exit cell and
\* the occupied cells
NeverLeft == {cell \in cells(maze) : cell = exit_cell \/ at(maze, cell) = CELL_OCCUPIED}

\* C24: throughout QTable.train (before the final sentinel conversion), the
\* four Q-values stored for the observation 'agent on the exit cell' and for
\* every observation 'agent on an occupied cell' are never updated and stay 0,
\* so the update of a winning move bootstraps from max(Q[s']) = 0: its new
\* value is old + 0.3 * (1.0 - old).
C24_ExitRowStaysZero ==
    /\ [](q_pc \in {"for", "while"}
           => \A cell \in NeverLeft :
                  /\ qtable[key(maze, cell)] = <<0, 0, 0, 0>>
                  /\ \A a \in actions : <<key(maze, cell), a>> \notin q_updated)
    /\ [][(IsQTrainStep /\ ret_status' = "win")
           => LET s == key(maze, current_cell)
                  a == last_action' + 1
              IN  /\ current_cell' = exit_cell
                  /\ \A i \in 1..4 : qtable[key(maze, current_cell')][i] = 0
                  /\ 10 * (qtable'[s][a] - qtable[s][a])
                       = 3 * (q_of_reward(REWARD_EXIT) - qtable[s][a])]_vars

\* a maze with a wall, and a second winning move from the same cell: the slot
\* has gone from 0.3 to 0.3 + 0.3 * (1.0 - 0.3) = 0.51
C24_Witness ==
    /\ q_pc = "for"
    /\ last_op = "move"
    /\ ret_status = "win"
    /\ \E cell \in cells(maze) : at(maze, cell) = CELL_OCCUPIED
    /\ qtable[key(maze, previous_cell)][last_action + 1] = 51 * (Q_ONE \div 100)

====
